---- MODULE Spec2Model ----
(***************************************************************************)
(* Model of driver.c: a KMDF driver whose DriverEntry spawns one system    *)
(* thread per logical processor; each thread (ThreadEntry) pins itself to  *)
(* its processor, reads three MSRs inside __try/__except, derives a        *)
(* temperature from bit-fields of the raw values and signals a KEVENT;     *)
(* DriverEntry waits for the events; MyDriverUnload frees the array.       *)
(*                                                                         *)
(* A 64-bit register value is the set of its set bit positions (0 = LSB),  *)
(* so that no 64-bit quantity has to fit a model integer.  A 32-bit ULONG  *)
(* is a pair <<high 16 bits, low 16 bits>>.                                *)
(***************************************************************************)
EXTENDS Integers, Sequences, FiniteSets, TLC

\* ------------------------------------------------------------------ bounds
\* Largest processor count KeQueryActiveProcessorCountEx returns in the model.
MaxCores == 2
\* Largest number of processors beyond the width of an affinity mask that a
\* host of the mask-width specification has.
MaxWide == 2

\* ------------------------------------------------------- program constants
MSR_TEMPERATURE_TARGET == 418      \* 0x1A2
IA32_THERM_STATUS == 412           \* 0x19C
MSR_CUSTOM_808 == 2056             \* 0x808
\* Bits of the storage unit of a ULONG bit-field, and of the ULONG64 Value.
UlongBits == 32
\* Bits of a KAFFINITY (ULONG_PTR of the 64-bit build).
KAffinityBits == 64
Ulong64Bits == 64
\* -1 as the int stored into CORE.Temperature.
InvalidTemperature == -1

\* ---------------------------------------------------------- bit utilities
Pow2(n) == 2 ^ n

\* The 64-bit value whose bits off.. hold the binary digits of v (v < 2^16).
Encode(v, off) == { off + b : b \in { c \in 0..15 : (v \div Pow2(c)) % 2 = 1 } }

RECURSIVE SumBits(_, _, _)
SumBits(raw, off, w) ==
    IF w = 0 THEN 0
    ELSE (IF (off + w - 1) \in raw THEN Pow2(w - 1) ELSE 0) + SumBits(raw, off, w - 1)

\* Bits lo..hi of a raw value, as a number (the hardware's numbering).
BitsOf(raw, lo, hi) == SumBits(raw, lo, hi - lo + 1)

\* ------------------------------------------- the bit-field declarations
MSR_TEMPERATURE_TARGET_UNION ==
    << [name |-> "Reserved1", width |-> 16],
       [name |-> "Target",    width |-> 8],
       [name |-> "Reserved2", width |-> 8],
       [name |-> "Reserved3", width |-> 32] >>

\* Variant of MSR_THERM_STATUS_UNION with PowerLimitLog and Reserved1 exchanged.
ThermStatusUnion_Swapped ==
    << [name |-> "StatusBit",       width |-> 1],
       [name |-> "StatusLog",       width |-> 1],
       [name |-> "PROCHOT",         width |-> 1],
       [name |-> "PROCHOTLog",      width |-> 1],
       [name |-> "CriticalTemp",    width |-> 1],
       [name |-> "CriticalTempLog", width |-> 1],
       [name |-> "Threshold1",      width |-> 1],
       [name |-> "Threshold1Log",   width |-> 1],
       [name |-> "Threshold2",      width |-> 1],
       [name |-> "Threshold2Log",   width |-> 1],
       [name |-> "PowerLimit",      width |-> 1],
       [name |-> "Reserved1",       width |-> 4],
       [name |-> "PowerLimitLog",   width |-> 1],
       [name |-> "DTS",             width |-> 8],
       [name |-> "Reserved2",       width |-> 4],
       [name |-> "Resolution",      width |-> 5],
       [name |-> "ReadingValid",    width |-> 1],
       [name |-> "Reserved3",       width |-> 32] >>

MSR_THERM_STATUS_UNION ==
    << [name |-> "StatusBit",       width |-> 1],
       [name |-> "StatusLog",       width |-> 1],
       [name |-> "PROCHOT",         width |-> 1],
       [name |-> "PROCHOTLog",      width |-> 1],
       [name |-> "CriticalTemp",    width |-> 1],
       [name |-> "CriticalTempLog", width |-> 1],
       [name |-> "Threshold1",      width |-> 1],
       [name |-> "Threshold1Log",   width |-> 1],
       [name |-> "Threshold2",      width |-> 1],
       [name |-> "Threshold2Log",   width |-> 1],
       [name |-> "PowerLimit",      width |-> 1],
       [name |-> "PowerLimitLog",   width |-> 1],
       [name |-> "Reserved1",       width |-> 4],
       [name |-> "DTS",             width |-> 8],
       [name |-> "Reserved2",       width |-> 4],
       [name |-> "Resolution",      width |-> 5],
       [name |-> "ReadingValid",    width |-> 1],
       [name |-> "Reserved3",       width |-> 32] >>

\* Allocation of ULONG bit-fields by the compiler the driver is built with
\* (the Microsoft layout, which clang-cl and the x64 ABI share): fields are
\* packed from bit 0 of a 32-bit storage unit, and a field that does not fit
\* in what is left of the current unit starts the next unit.
\* Where a field of width w goes when the fields before it end at bit start.
PlaceField(start, w) ==
    IF (start % UlongBits) + w > UlongBits
    THEN ((start \div UlongBits) + 1) * UlongBits
    ELSE start

RECURSIVE FieldOffset(_, _)
FieldOffset(decl, k) ==
    IF k = 1 THEN 0
    ELSE CHOOSE o \in { PlaceField(start, decl[k].width) :
                          start \in { FieldOffset(decl, k - 1) + decl[k - 1].width } } : TRUE

\* The fields of a declaration with the bit offset the compiler gives each.
Layout(decl) ==
    [ k \in DOMAIN decl |->
        [ name |-> decl[k].name, width |-> decl[k].width, offset |-> FieldOffset(decl, k) ] ]

TjMaxFields == Layout(MSR_TEMPERATURE_TARGET_UNION)
ThermStatusFields == Layout(MSR_THERM_STATUS_UNION)

\* Reading member Fields.f of a union whose member Value holds raw.  Bits of
\* Fields beyond the 64 bits of Value are memory RtlZeroMemory cleared.
ReadField(fields, raw, f) ==
    LET k == CHOOSE n \in DOMAIN fields : fields[n].name = f
    IN  SumBits(raw \cap (0 .. Ulong64Bits - 1), fields[k].offset, fields[k].width)

\* ------------------------------------------------- 32-bit ULONG arithmetic
\* A ULONG is kept as two 16-bit halves.
Half == 2 ^ 16
ToUlong(v) == << v \div Half, v % Half >>

\* a - b in ULONG arithmetic (modulo 2^32).
UlongSub(a, b) ==
    LET borrow == IF a[2] < b[2] THEN 1 ELSE 0
    IN  << (a[1] - b[1] - borrow) % Half, (a[2] - b[2]) % Half >>

\* Conversion of a ULONG to int (two's complement, as the compiler does).
UlongToInt(u) ==
    IF u[1] >= Half \div 2 THEN (u[1] - Half) * Half + u[2]
    ELSE u[1] * Half + u[2]

\* Variant of DeriveTemperature that clamps the difference at 0.
DeriveTemperature_Clamped(tjmax, therm) ==
    LET t == ReadField(TjMaxFields, tjmax, "Target")
        d == ReadField(ThermStatusFields, therm, "DTS")
    IN  IF ReadField(ThermStatusFields, therm, "ReadingValid") # 0
        THEN (IF d > t THEN 0 ELSE t - d)
        ELSE InvalidTemperature

\* Lines 85-90: the temperature ThreadEntry stores once the reads are done.
DeriveTemperature(tjmax, therm) ==
    IF ReadField(ThermStatusFields, therm, "ReadingValid") # 0
    THEN UlongToInt(UlongSub(ToUlong(ReadField(TjMaxFields, tjmax, "Target")),
                             ToUlong(ReadField(ThermStatusFields, therm, "DTS"))))
    ELSE InvalidTemperature


\* ------------------------------------------------------------------ state
VARIABLES
    hwCount,      \* host: what KeQueryActiveProcessorCountEx(ALL_PROCESSOR_GROUPS) returns
    msr,          \* host: msr[cpu][address] = the register of logical processor cpu
    CoreCount,    \* global ULONG CoreCount
    CoreArray,    \* global PCORE CoreArray: "NULL" or "pool"
    pool,         \* the 'corE' allocation: "none", "allocated", "freed" or "corrupt"
    core,         \* the CORE slots of the allocation, core[i] a record
    dpc,          \* DriverEntry: position
    di,           \* DriverEntry: loop variable i
    status,       \* DriverEntry: returned NTSTATUS ("pending" before it returns)
    wpc,          \* ThreadEntry of slot i: position ("none" while no thread)
    affinity,     \* per thread: whether a system affinity is in force, and its mask
    sets,         \* history: per slot, who called KeSetEvent on ThreadDoneEvent, in order
    waits,        \* history: slots DriverEntry/Unload called KeWaitForSingleObject on, in order
    slotLog,      \* history: per slot, the DbgPrintEx entries that name it
    passLog,      \* history: DbgPrintEx entries of DriverEntry/Unload that name no slot
    upc,          \* MyDriverUnload: position
    ui,           \* MyDriverUnload: loop variable i
    reads,        \* history: per slot, the __readmsr calls of its thread, in order
    closes,       \* history: the slots whose ThreadHandle was given to ZwClose, in order
    spawns        \* history: per slot, how many threads PsCreateSystemThread created

vars == << hwCount, msr, CoreCount, CoreArray, pool, core, dpc, di, status, wpc,
           affinity, sets, waits, slotLog, passLog, upc, ui, reads, closes, spawns >>

hostVars == << hwCount, msr >>
unloadVars == << upc, ui >>
driverVars == << dpc, di, status >>

Slots == 0 .. CoreCount - 1
NULL == 0

\* A thread that runs under its user affinity (no system affinity in force).
UserAffinity == [system |-> FALSE, mask |-> {}]

\* RtlZeroMemory of one CORE (line 189).  ThreadDoneEvent: a zeroed KEVENT is
\* not yet initialized; KeInitializeEvent makes it a non-signaled event.
ZeroCore ==
    [ CpuIndex |-> 0, ThreadHandle |-> NULL,
      ThreadDoneEvent |-> [init |-> FALSE, signaled |-> FALSE],
      Temperature |-> 0, TjMax |-> {}, ThermStatus |-> {}, Msr808 |-> {} ]

\* KeSetEvent(&c[i].ThreadDoneEvent, IO_NO_INCREMENT, FALSE) on the array c.
KeSetEvent(c, i) == [c EXCEPT ![i].ThreadDoneEvent.signaled = TRUE]

\* ------------------------------------------------------------ host inputs
\* Register contents of one processor, by MSR address.
Regs(target, dts, thermExtra, aux) ==
    (MSR_TEMPERATURE_TARGET :> Encode(target, 16))
        @@ (IA32_THERM_STATUS :> (Encode(dts, 16) \cup thermExtra))
        @@ (MSR_CUSTOM_808 :> aux)

\* Bit 31 is where the hardware reports "reading valid"; bit 37 is set to drive
\* the driver's own ReadingValid field in some of the profiles.
Profiles ==
    { Regs(100, 40, {31, 37}, {3}),     \* valid by both readings, 60 degrees
      Regs(40, 100, {31, 37}, {3}),     \* DTS above the target
      Regs(100, 40, {}, {3}) }          \* not valid

\* Bits of the thermal-status register that are neither a status flag nor DTS.
ThermOtherBits == (12 .. 15) \cup (24 .. 63)

WideTjMax ==
    { Encode(t, 16) \cup n : t \in { 0, 1, 100, 128, 255 },
                             n \in { {}, { 15, 24 }, (0 .. 63) \ (16 .. 23) } }

WideTherm ==
    { Encode(d, 16) \cup f \cup o :
        d \in { 0, 40, 101, 255 },
        f \in { { b } : b \in 0 .. 11 } \cup { {}, 0 .. 11 },
        o \in { {}, { 31 }, { 37 }, { 31, 37 }, ThermOtherBits \ { 37 }, ThermOtherBits } }

WideProfiles ==
    { (MSR_TEMPERATURE_TARGET :> t) @@ (IA32_THERM_STATUS :> h) @@ (MSR_CUSTOM_808 :> { 3 }) :
        t \in WideTjMax, h \in WideTherm }

Start ==
    /\ CoreCount = 0
    /\ CoreArray = "NULL"
    /\ pool = "none"
    /\ core = << >>
    /\ dpc = "WdfDriverCreate"
    /\ di = 0
    /\ status = "pending"
    /\ wpc = << >>
    /\ affinity = << >>
    /\ sets = << >>
    /\ waits = << >>
    /\ slotLog = << >>
    /\ passLog = << >>
    /\ upc = "idle"
    /\ ui = 0
    /\ reads = << >>
    /\ closes = << >>
    /\ spawns = << >>

InitDecode ==
    /\ hwCount = 1
    /\ msr \in [0 .. hwCount - 1 -> WideProfiles]
    /\ Start

InitLive ==
    /\ hwCount \in 0 .. MaxCores
    /\ msr = [cpu \in 0 .. hwCount - 1 |-> Regs(100, 40, {31, 37}, {3})]
    /\ Start

Init ==
    /\ hwCount \in 0 .. MaxCores
    /\ msr \in [0 .. hwCount - 1 -> Profiles]
    /\ Start

\* ------------------------------------------------------------ DriverEntry
Return(st) ==
    /\ dpc' = "returned"
    /\ status' = st

\* Lines 159-163 (and the brand string, 165-174, which touches no state here).
DriverEntry_WdfDriverCreate ==
    /\ dpc = "WdfDriverCreate"
    /\ \E ok \in BOOLEAN :
         IF ok
         THEN /\ dpc' = "query"
              /\ UNCHANGED << status, passLog >>
         ELSE /\ Return("WDF_ERROR")
              /\ passLog' = Append(passLog, "Failed to create WDF driver")
    /\ UNCHANGED << hostVars, CoreCount, CoreArray, pool, core, di, wpc, affinity,
                    sets, waits, slotLog, unloadVars,
                    reads, closes, spawns >>

\* Variant of DriverEntry_QueryCount without the CoreCount == 0 test.
QueryCount_NoZeroTest ==
    /\ dpc = "query"
    /\ CoreCount' = hwCount
    /\ dpc' = "alloc"
    /\ UNCHANGED << hostVars, CoreArray, pool, core, di, status, wpc, affinity, sets,
                    waits, slotLog, passLog, unloadVars,
                    reads, closes, spawns >>

\* Lines 177-181.
DriverEntry_QueryCount ==
    /\ dpc = "query"
    /\ CoreCount' = hwCount
    /\ IF hwCount = 0
       THEN /\ Return("STATUS_UNSUCCESSFUL")
            /\ passLog' = Append(passLog, "No active processors found")
       ELSE /\ dpc' = "alloc"
            /\ UNCHANGED << status, passLog >>
    /\ UNCHANGED << hostVars, CoreArray, pool, core, di, wpc, affinity, sets, waits,
                    slotLog, unloadVars,
                    reads, closes, spawns >>

\* Lines 184-189, ExAllocatePoolWithTag succeeding: the array is zeroed.
DriverEntry_AllocOk ==
    /\ dpc = "alloc"
    /\ CoreArray' = "pool"
    /\ pool' = "allocated"
    /\ core' = [i \in Slots |-> ZeroCore]
    /\ wpc' = [i \in Slots |-> "none"]
    /\ affinity' = [i \in Slots |-> UserAffinity]
    /\ sets' = [i \in Slots |-> << >>]
    /\ slotLog' = [i \in Slots |-> << >>]
    /\ reads' = [i \in Slots |-> << >>]
    /\ spawns' = [i \in Slots |-> 0]
    /\ dpc' = "spawn_init"
    /\ di' = 0
    /\ UNCHANGED << hostVars, CoreCount, status, waits, passLog, unloadVars, closes >>

\* Lines 184-188, ExAllocatePoolWithTag returning NULL.
DriverEntry_AllocFail ==
    /\ dpc = "alloc"
    /\ Return("STATUS_INSUFFICIENT_RESOURCES")
    /\ passLog' = Append(passLog, "Failed to allocate memory for CoreArray")
    /\ UNCHANGED << hostVars, CoreCount, CoreArray, pool, core, di, wpc, affinity,
                    sets, waits, slotLog, unloadVars,
                    reads, closes, spawns >>

\* Variant of DriverEntry_SpawnInit that numbers the slots from 1.
SpawnInit_OneBased ==
    /\ dpc = "spawn_init"
    /\ di < CoreCount
    /\ core' = [core EXCEPT ![di].CpuIndex = di + 1,
                            ![di].ThreadDoneEvent = [init |-> TRUE, signaled |-> FALSE]]
    /\ dpc' = "spawn_create"
    /\ UNCHANGED << hostVars, CoreCount, CoreArray, pool, di, status, wpc, affinity,
                    sets, waits, slotLog, passLog, unloadVars,
                    reads, closes, spawns >>

\* Lines 192-195: loop test, CpuIndex and KeInitializeEvent of slot i.
DriverEntry_SpawnInit ==
    /\ dpc = "spawn_init"
    /\ di < CoreCount
    /\ core' = [core EXCEPT ![di].CpuIndex = di,
                            ![di].ThreadDoneEvent = [init |-> TRUE, signaled |-> FALSE]]
    /\ dpc' = "spawn_create"
    /\ UNCHANGED << hostVars, CoreCount, CoreArray, pool, di, status, wpc, affinity,
                    sets, waits, slotLog, passLog, unloadVars,
                    reads, closes, spawns >>

\* Lines 197-204 and 212, PsCreateSystemThread succeeding: the handle is
\* stored and the new thread stands at the start of ThreadEntry.
DriverEntry_CreateThreadOk ==
    /\ dpc = "spawn_create"
    /\ core' = [core EXCEPT ![di].ThreadHandle = di + 1]
    /\ wpc' = [wpc EXCEPT ![di] = "affinity"]
    /\ spawns' = [spawns EXCEPT ![di] = @ + 1]
    /\ di' = di + 1
    /\ dpc' = "spawn_init"
    /\ UNCHANGED << hostVars, CoreCount, CoreArray, pool, status, affinity, sets,
                    waits, slotLog, passLog, unloadVars, reads, closes >>

\* Variant of DriverEntry_CreateThreadFail that omits line 210.
CreateThreadFail_NoSetEvent ==
    /\ dpc = "spawn_create"
    /\ slotLog' = [slotLog EXCEPT ![di] = Append(@, [kind |-> "spawn_failure"])]
    /\ core' = [core EXCEPT ![di].ThreadHandle = NULL]
    /\ di' = di + 1
    /\ dpc' = "spawn_init"
    /\ UNCHANGED << hostVars, CoreCount, CoreArray, pool, status, wpc, affinity,
                    sets, waits, passLog, unloadVars,
                    reads, closes, spawns >>

\* Variant of DriverEntry_CreateThreadFail that leaves the spawn loop.
CreateThreadFail_Break ==
    /\ dpc = "spawn_create"
    /\ slotLog' = [slotLog EXCEPT ![di] = Append(@, [kind |-> "spawn_failure"])]
    /\ core' = KeSetEvent([core EXCEPT ![di].ThreadHandle = NULL], di)
    /\ sets' = [sets EXCEPT ![di] = Append(@, "coordinator")]
    /\ di' = CoreCount
    /\ dpc' = "spawn_init"
    /\ UNCHANGED << hostVars, CoreCount, CoreArray, pool, status, wpc, affinity,
                    waits, passLog, unloadVars,
                    reads, closes, spawns >>

\* Lines 197-212, PsCreateSystemThread failing: log, NULL handle, KeSetEvent.
DriverEntry_CreateThreadFail ==
    /\ dpc = "spawn_create"
    /\ slotLog' = [slotLog EXCEPT ![di] = Append(@, [kind |-> "spawn_failure"])]
    /\ core' = KeSetEvent([core EXCEPT ![di].ThreadHandle = NULL], di)
    /\ sets' = [sets EXCEPT ![di] = Append(@, "coordinator")]
    /\ di' = di + 1
    /\ dpc' = "spawn_init"
    /\ UNCHANGED << hostVars, CoreCount, CoreArray, pool, status, wpc, affinity,
                    waits, passLog, unloadVars,
                    reads, closes, spawns >>

\* Line 192, the spawn loop ending.
DriverEntry_SpawnDone ==
    /\ dpc = "spawn_init"
    /\ di >= CoreCount
    /\ dpc' = "wait"
    /\ di' = 0
    /\ UNCHANGED << hostVars, CoreCount, CoreArray, pool, core, status, wpc, affinity,
                    sets, waits, slotLog, passLog, unloadVars,
                    reads, closes, spawns >>

\* Variant of DriverEntry_WaitSlot that omits line 219 and so keeps the
\* closed handle in the slot.
WaitSlot_KeepHandle ==
    /\ dpc = "wait"
    /\ di < CoreCount
    /\ core[di].ThreadHandle # NULL
    /\ core[di].ThreadDoneEvent.signaled
    /\ waits' = Append(waits, di)
    /\ closes' = Append(closes, di)
    /\ di' = di + 1
    /\ UNCHANGED << hostVars, CoreCount, CoreArray, pool, core, dpc, status, wpc,
                    affinity, sets, slotLog, passLog, unloadVars, reads, spawns >>

\* Variant of DriverEntry_WaitSlot that closes the handle without the
\* KeWaitForSingleObject of line 217.
WaitSlot_NoWait ==
    /\ dpc = "wait"
    /\ di < CoreCount
    /\ core[di].ThreadHandle # NULL
    /\ closes' = Append(closes, di)
    /\ core' = [core EXCEPT ![di].ThreadHandle = NULL]
    /\ di' = di + 1
    /\ UNCHANGED << hostVars, CoreCount, CoreArray, pool, dpc, status, wpc, affinity,
                    sets, waits, slotLog, passLog, unloadVars, reads, spawns >>

\* Lines 215-220 for a slot that holds a handle: KeWaitForSingleObject
\* returns once the notification event is signaled; then ZwClose, NULL.
DriverEntry_WaitSlot ==
    /\ dpc = "wait"
    /\ di < CoreCount
    /\ core[di].ThreadHandle # NULL
    /\ core[di].ThreadDoneEvent.signaled
    /\ waits' = Append(waits, di)
    /\ closes' = Append(closes, di)
    /\ core' = [core EXCEPT ![di].ThreadHandle = NULL]
    /\ di' = di + 1
    /\ UNCHANGED << hostVars, CoreCount, CoreArray, pool, dpc, status, wpc, affinity,
                    sets, slotLog, passLog, unloadVars, reads, spawns >>

\* Variant of DriverEntry_SkipSlot that waits on the event of a slot whose
\* handle is NULL instead of passing over it.
SkipSlot_Wait ==
    /\ dpc = "wait"
    /\ di < CoreCount
    /\ core[di].ThreadHandle = NULL
    /\ core[di].ThreadDoneEvent.signaled
    /\ waits' = Append(waits, di)
    /\ di' = di + 1
    /\ UNCHANGED << hostVars, CoreCount, CoreArray, pool, core, dpc, status, wpc,
                    affinity, sets, slotLog, passLog, unloadVars,
                    reads, closes, spawns >>

\* Lines 215-216 for a slot whose handle is NULL: nothing to wait for.
DriverEntry_SkipSlot ==
    /\ dpc = "wait"
    /\ di < CoreCount
    /\ core[di].ThreadHandle = NULL
    /\ di' = di + 1
    /\ UNCHANGED << hostVars, CoreCount, CoreArray, pool, core, dpc, status, wpc,
                    affinity, sets, waits, slotLog, passLog, unloadVars,
                    reads, closes, spawns >>

\* Variant of DriverEntry_Finish that frees the array before it returns.
Finish_ReleaseArray ==
    /\ dpc = "wait"
    /\ di >= CoreCount
    /\ pool' = "freed"
    /\ CoreArray' = "NULL"
    /\ passLog' = Append(passLog, "All core temperature readings completed")
    /\ Return("STATUS_SUCCESS")
    /\ UNCHANGED << hostVars, CoreCount, core, di, wpc, affinity,
                    sets, waits, slotLog, unloadVars,
                    reads, closes, spawns >>

\* Variant of DriverEntry_Finish that fails the pass when a slot has no reading.
Finish_FailOnInvalid ==
    /\ dpc = "wait"
    /\ di >= CoreCount
    /\ passLog' = Append(passLog, "All core temperature readings completed")
    /\ Return(IF \E i \in Slots : core[i].Temperature = InvalidTemperature
              THEN "STATUS_UNSUCCESSFUL" ELSE "STATUS_SUCCESS")
    /\ UNCHANGED << hostVars, CoreCount, CoreArray, pool, core, di, wpc, affinity,
                    sets, waits, slotLog, unloadVars,
                    reads, closes, spawns >>

\* Lines 215, 223-225: the wait loop ending, the final entry, the return.
DriverEntry_Finish ==
    /\ dpc = "wait"
    /\ di >= CoreCount
    /\ passLog' = Append(passLog, "All core temperature readings completed")
    /\ Return("STATUS_SUCCESS")
    /\ UNCHANGED << hostVars, CoreCount, CoreArray, pool, core, di, wpc, affinity,
                    sets, waits, slotLog, unloadVars,
                    reads, closes, spawns >>


\* ------------------------------------------------------------ ThreadEntry
\* The processor a thread executes on: one of its system affinity mask, or
\* any processor of the host when no system affinity is in force.
RunsOn(i) == IF affinity[i].system THEN affinity[i].mask ELSE 0 .. hwCount - 1

workerFrame == << hostVars, CoreCount, CoreArray, pool, driverVars, waits, passLog,
                  unloadVars, closes, spawns >>

\* Line 67, ((KAFFINITY)1) << index: the masks the shift can yield, as sets
\* of processor numbers.  A count of KAffinityBits or more is undefined: the
\* shift instruction uses the count modulo the width, a folded shift gives 0.
AffinityMasks(index) ==
    IF index < KAffinityBits
    THEN { { index } }
    ELSE { { index % KAffinityBits }, {} }

\* Lines 63-67: KeSetSystemAffinityThreadEx(1 << pCore->CpuIndex); an empty
\* mask is rejected and the thread keeps the affinity it had.
ThreadEntry_SetAffinity(i) ==
    /\ wpc[i] = "affinity"
    /\ \E m \in AffinityMasks(core[i].CpuIndex) :
         affinity' = [affinity EXCEPT ![i] =
                         IF m = {} THEN @ ELSE [system |-> TRUE, mask |-> m]]
    /\ wpc' = [wpc EXCEPT ![i] = "read_tjmax"]
    /\ UNCHANGED << workerFrame, core, sets, slotLog,
                    reads >>

\* One executed __readmsr(address): the processor the instruction ran on,
\* and whether it returned a value (ok) or raised an exception.
ReadMsr(address, cpu, ok) == [address |-> address, cpu |-> cpu, ok |-> ok]

\* The register each __readmsr statement of the __try block names (71-73).
ReadAt ==
    ("read_tjmax" :> MSR_TEMPERATURE_TARGET)
        @@ ("read_therm" :> IA32_THERM_STATUS)
        @@ ("read_808" :> MSR_CUSTOM_808)

\* Line 71: __readmsr(MSR_TEMPERATURE_TARGET) returning a value.
ThreadEntry_ReadTjMax(i) ==
    /\ wpc[i] = "read_tjmax"
    /\ \E cpu \in RunsOn(i) :
         /\ core' = [core EXCEPT ![i].TjMax = msr[cpu][MSR_TEMPERATURE_TARGET]]
         /\ reads' = [reads EXCEPT ![i] = Append(@, ReadMsr(MSR_TEMPERATURE_TARGET, cpu, TRUE))]
    /\ wpc' = [wpc EXCEPT ![i] = "read_therm"]
    /\ UNCHANGED << workerFrame, affinity, sets, slotLog >>

\* Line 72: __readmsr(IA32_THERM_STATUS) returning a value.
ThreadEntry_ReadThermStatus(i) ==
    /\ wpc[i] = "read_therm"
    /\ \E cpu \in RunsOn(i) :
         /\ core' = [core EXCEPT ![i].ThermStatus = msr[cpu][IA32_THERM_STATUS]]
         /\ reads' = [reads EXCEPT ![i] = Append(@, ReadMsr(IA32_THERM_STATUS, cpu, TRUE))]
    /\ wpc' = [wpc EXCEPT ![i] = "read_808"]
    /\ UNCHANGED << workerFrame, affinity, sets, slotLog >>

\* Line 73: __readmsr(MSR_CUSTOM_808) returning a value; the __try block ends.
ThreadEntry_ReadMsr808(i) ==
    /\ wpc[i] = "read_808"
    /\ \E cpu \in RunsOn(i) :
         /\ core' = [core EXCEPT ![i].Msr808 = msr[cpu][MSR_CUSTOM_808]]
         /\ reads' = [reads EXCEPT ![i] = Append(@, ReadMsr(MSR_CUSTOM_808, cpu, TRUE))]
    /\ wpc' = [wpc EXCEPT ![i] = "revert"]
    /\ UNCHANGED << workerFrame, affinity, sets, slotLog >>

\* Variant of ThreadEntry_ReadFault in which the faulting __readmsr is
\* executed again instead of control going to the __except block.
ReadFault_Retry(i) ==
    /\ wpc[i] \in DOMAIN ReadAt
    /\ Len(reads[i]) < 4
    /\ \E cpu \in RunsOn(i) :
         reads' = [reads EXCEPT ![i] = Append(@, ReadMsr(ReadAt[wpc[i]], cpu, FALSE))]
    /\ UNCHANGED << workerFrame, core, affinity, sets, slotLog, wpc >>

\* Lines 71-76: one of the three __readmsr raising an exception; control goes
\* to the __except block, whose first statement logs the exception.
ThreadEntry_ReadFault(i) ==
    /\ wpc[i] \in DOMAIN ReadAt
    /\ \E cpu \in RunsOn(i) :
         reads' = [reads EXCEPT ![i] = Append(@, ReadMsr(ReadAt[wpc[i]], cpu, FALSE))]
    /\ slotLog' = [slotLog EXCEPT ![i] = Append(@, [kind |-> "exception"])]
    /\ wpc' = [wpc EXCEPT ![i] = "x_temperature"]
    /\ UNCHANGED << workerFrame, core, affinity, sets >>

\* Variant of ThreadEntry_ExceptTemperature that leaves Temperature alone.
ExceptTemperature_Skip(i) ==
    /\ wpc[i] = "x_temperature"
    /\ wpc' = [wpc EXCEPT ![i] = "x_revert"]
    /\ UNCHANGED << workerFrame, core, affinity, sets, slotLog,
                    reads >>

\* Line 77.
ThreadEntry_ExceptTemperature(i) ==
    /\ wpc[i] = "x_temperature"
    /\ core' = [core EXCEPT ![i].Temperature = InvalidTemperature]
    /\ wpc' = [wpc EXCEPT ![i] = "x_revert"]
    /\ UNCHANGED << workerFrame, affinity, sets, slotLog,
                    reads >>

\* Variant of ThreadEntry_ExceptRevert that omits line 78.
ExceptRevert_Skip(i) ==
    /\ wpc[i] = "x_revert"
    /\ wpc' = [wpc EXCEPT ![i] = "x_signal"]
    /\ UNCHANGED << workerFrame, core, affinity, sets, slotLog,
                    reads >>

\* Line 78: KeRevertToUserAffinityThread in the __except block.
ThreadEntry_ExceptRevert(i) ==
    /\ wpc[i] = "x_revert"
    /\ affinity' = [affinity EXCEPT ![i] = UserAffinity]
    /\ wpc' = [wpc EXCEPT ![i] = "x_signal"]
    /\ UNCHANGED << workerFrame, core, sets, slotLog,
                    reads >>

\* Variant of ThreadEntry_ExceptSignal that omits the KeSetEvent.
ExceptSignal_NoSetEvent(i) ==
    /\ wpc[i] = "x_signal"
    /\ wpc' = [wpc EXCEPT ![i] = "x_terminate"]
    /\ UNCHANGED << workerFrame, core, affinity, sets, slotLog,
                    reads >>

\* Line 79: KeSetEvent in the __except block.
ThreadEntry_ExceptSignal(i) ==
    /\ wpc[i] = "x_signal"
    /\ core' = KeSetEvent(core, i)
    /\ sets' = [sets EXCEPT ![i] = Append(@, "worker_fault")]
    /\ wpc' = [wpc EXCEPT ![i] = "x_terminate"]
    /\ UNCHANGED << workerFrame, affinity, slotLog,
                    reads >>

\* Variant of ThreadEntry_ExceptTerminate in which the __except block falls
\* through to line 83 instead of ending the thread.
ExceptTerminate_FallThrough(i) ==
    /\ wpc[i] = "x_terminate"
    /\ wpc' = [wpc EXCEPT ![i] = "revert"]
    /\ UNCHANGED << workerFrame, core, affinity, sets, slotLog,
                    reads >>

\* Line 80: PsTerminateSystemThread(STATUS_UNSUCCESSFUL) does not return.
ThreadEntry_ExceptTerminate(i) ==
    /\ wpc[i] = "x_terminate"
    /\ wpc' = [wpc EXCEPT ![i] = "exited"]
    /\ UNCHANGED << workerFrame, core, affinity, sets, slotLog,
                    reads >>

\* Line 83.
ThreadEntry_Revert(i) ==
    /\ wpc[i] = "revert"
    /\ affinity' = [affinity EXCEPT ![i] = UserAffinity]
    /\ wpc' = [wpc EXCEPT ![i] = "derive"]
    /\ UNCHANGED << workerFrame, core, sets, slotLog,
                    reads >>

\* Variant of ThreadEntry_Derive that stores the temperature into slot 0
\* whichever slot the thread was given.
Derive_Slot0(i) ==
    /\ wpc[i] = "derive"
    /\ core' = [core EXCEPT ![0].Temperature =
                                DeriveTemperature(core[i].TjMax, core[i].ThermStatus)]
    /\ wpc' = [wpc EXCEPT ![i] = "report"]
    /\ UNCHANGED << workerFrame, affinity, sets, slotLog,
                    reads >>

\* Lines 85-90.
ThreadEntry_Derive(i) ==
    /\ wpc[i] = "derive"
    /\ core' = [core EXCEPT ![i].Temperature =
                                DeriveTemperature(core[i].TjMax, core[i].ThermStatus)]
    /\ wpc' = [wpc EXCEPT ![i] = "report"]
    /\ UNCHANGED << workerFrame, affinity, sets, slotLog,
                    reads >>

\* Lines 92-116: the text RtlStringCbPrintfA formats for a slot.
ReportOf(c) ==
    IF c.Temperature >= 0
    THEN [ kind |-> "temp", CpuIndex |-> c.CpuIndex, Temp |-> c.Temperature,
           Msr808 |-> c.Msr808,
           StatusBit |-> ReadField(ThermStatusFields, c.ThermStatus, "StatusBit"),
           PROCHOT |-> ReadField(ThermStatusFields, c.ThermStatus, "PROCHOT"),
           CriticalTemp |-> ReadField(ThermStatusFields, c.ThermStatus, "CriticalTemp"),
           Threshold1 |-> ReadField(ThermStatusFields, c.ThermStatus, "Threshold1"),
           Threshold2 |-> ReadField(ThermStatusFields, c.ThermStatus, "Threshold2"),
           PowerLimit |-> ReadField(ThermStatusFields, c.ThermStatus, "PowerLimit"),
           DTS |-> ReadField(ThermStatusFields, c.ThermStatus, "DTS"),
           Resolution |-> ReadField(ThermStatusFields, c.ThermStatus, "Resolution"),
           ReadingValid |-> ReadField(ThermStatusFields, c.ThermStatus, "ReadingValid") ]
    ELSE [ kind |-> "invalid", CpuIndex |-> c.CpuIndex, Msr808 |-> c.Msr808 ]

\* Variant of ThreadEntry_Report that logs nothing for a negative Temperature.
Report_SilentInvalid(i) ==
    /\ wpc[i] = "report"
    /\ slotLog' = [slotLog EXCEPT ![i] =
                      IF core[i].Temperature >= 0 THEN Append(@, ReportOf(core[i])) ELSE @]
    /\ wpc' = [wpc EXCEPT ![i] = "signal"]
    /\ UNCHANGED << workerFrame, core, affinity, sets,
                    reads >>

\* Lines 92-118: format the report and DbgPrintEx it.
ThreadEntry_Report(i) ==
    /\ wpc[i] = "report"
    /\ slotLog' = [slotLog EXCEPT ![i] = Append(@, ReportOf(core[i]))]
    /\ wpc' = [wpc EXCEPT ![i] = "signal"]
    /\ UNCHANGED << workerFrame, core, affinity, sets,
                    reads >>

\* Variant of ThreadEntry_Signal that omits line 120.
Signal_Skip(i) ==
    /\ wpc[i] = "signal"
    /\ wpc' = [wpc EXCEPT ![i] = "terminate"]
    /\ UNCHANGED << workerFrame, core, affinity, sets, slotLog,
                    reads >>

\* Line 120.
ThreadEntry_Signal(i) ==
    /\ wpc[i] = "signal"
    /\ core' = KeSetEvent(core, i)
    /\ sets' = [sets EXCEPT ![i] = Append(@, "worker")]
    /\ wpc' = [wpc EXCEPT ![i] = "terminate"]
    /\ UNCHANGED << workerFrame, affinity, slotLog,
                    reads >>

\* Line 121: PsTerminateSystemThread(STATUS_SUCCESS).
ThreadEntry_Terminate(i) ==
    /\ wpc[i] = "terminate"
    /\ wpc' = [wpc EXCEPT ![i] = "exited"]
    /\ UNCHANGED << workerFrame, core, affinity, sets, slotLog,
                    reads >>

ThreadEntry(i) ==
    \/ ThreadEntry_SetAffinity(i)
    \/ ThreadEntry_ReadTjMax(i)
    \/ ThreadEntry_ReadThermStatus(i)
    \/ ThreadEntry_ReadMsr808(i)
    \/ ThreadEntry_ReadFault(i)
    \/ ThreadEntry_ExceptTemperature(i)
    \/ ThreadEntry_ExceptRevert(i)
    \/ ThreadEntry_ExceptSignal(i)
    \/ ThreadEntry_ExceptTerminate(i)
    \/ ThreadEntry_Revert(i)
    \/ ThreadEntry_Derive(i)
    \/ ThreadEntry_Report(i)
    \/ ThreadEntry_Signal(i)
    \/ ThreadEntry_Terminate(i)

\* --------------------------------------------------------- MyDriverUnload
unloadFrame == << hostVars, CoreCount, driverVars, wpc, affinity, sets, slotLog,
                 reads, spawns >>

\* The framework calls EvtDriverUnload only after DriverEntry returned success.
\* Line 128: with CoreArray != NULL the loop is entered, otherwise only the
\* final entry (line 144) is logged.
MyDriverUnload_Enter ==
    /\ upc = "idle"
    /\ dpc = "returned"
    /\ status = "STATUS_SUCCESS"
    /\ IF CoreArray # "NULL"
       THEN /\ upc' = "loop"
            /\ ui' = 0
            /\ UNCHANGED passLog
       ELSE /\ upc' = "done"
            /\ passLog' = Append(passLog, "unloaded")
            /\ UNCHANGED ui
    /\ UNCHANGED << unloadFrame, CoreArray, pool, core, waits,
                    closes >>

\* Lines 131-138, one iteration: a slot that still holds a handle is waited
\* for (KeWaitForSingleObject blocks until the event is signaled) and its
\* handle closed; a slot whose handle is NULL is passed over.
MyDriverUnload_Slot ==
    /\ upc = "loop"
    /\ ui < CoreCount
    /\ core[ui].ThreadHandle # NULL => core[ui].ThreadDoneEvent.signaled
    /\ IF core[ui].ThreadHandle # NULL
       THEN /\ waits' = Append(waits, ui)
            /\ closes' = Append(closes, ui)
            /\ core' = [core EXCEPT ![ui].ThreadHandle = NULL]
       ELSE UNCHANGED << waits, closes, core >>
    /\ ui' = ui + 1
    /\ UNCHANGED << unloadFrame, CoreArray, pool, upc, passLog >>

\* Lines 131, 140-144: the loop ending, ExFreePoolWithTag, the final entry.
\* Freeing memory that is not allocated corrupts the pool.
MyDriverUnload_Free ==
    /\ upc = "loop"
    /\ ui >= CoreCount
    /\ pool' = IF pool = "allocated" THEN "freed" ELSE "corrupt"
    /\ CoreArray' = "NULL"
    /\ passLog' = Append(passLog, "unloaded")
    /\ upc' = "done"
    /\ UNCHANGED << unloadFrame, core, waits, ui,
                    closes >>

MyDriverUnload ==
    \/ MyDriverUnload_Enter
    \/ MyDriverUnload_Slot
    \/ MyDriverUnload_Free

\* ------------------------------------------------- hosts beyond the mask
\* Processor counts KeQueryActiveProcessorCountEx(ALL_PROCESSOR_GROUPS) can
\* return: one, as many as a KAFFINITY has bits, and up to MaxWide more.
WideCounts == { 1, KAffinityBits } \cup (KAffinityBits + 1 .. KAffinityBits + MaxWide)

\* DriverEntry at the end of its spawn loop (line 212, i = CoreCount) on a
\* host of n processors: PsCreateSystemThread succeeded for the slots in
\* live, whose threads have not run yet, and failed for every other slot.
SpawnedOnly(n, live) ==
    /\ hwCount = n
    /\ msr = [cpu \in 0 .. n - 1 |-> Regs(100, 40, {31, 37}, {3})]
    /\ CoreCount = n
    /\ CoreArray = "pool"
    /\ pool = "allocated"
    /\ core = [k \in 0 .. n - 1 |->
                 [ZeroCore EXCEPT !.CpuIndex = k,
                                  !.ThreadHandle = IF k \in live THEN k + 1 ELSE NULL,
                                  !.ThreadDoneEvent = [init |-> TRUE, signaled |-> k \notin live]]]
    /\ dpc = "spawn_init"
    /\ di = n
    /\ status = "pending"
    /\ wpc = [k \in 0 .. n - 1 |-> IF k \in live THEN "affinity" ELSE "none"]
    /\ affinity = [k \in 0 .. n - 1 |-> UserAffinity]
    /\ sets = [k \in 0 .. n - 1 |-> IF k \in live THEN << >> ELSE << "coordinator" >>]
    /\ waits = << >>
    /\ slotLog = [k \in 0 .. n - 1 |->
                    IF k \in live THEN << >> ELSE << [kind |-> "spawn_failure"] >>]
    /\ passLog = << >>
    /\ upc = "idle"
    /\ ui = 0
    /\ reads = [k \in 0 .. n - 1 |-> << >>]
    /\ closes = << >>
    /\ spawns = [k \in 0 .. n - 1 |-> IF k \in live THEN 1 ELSE 0]

\* The inputs of the mask computation: a processor count and the one or two
\* slots whose threads exist.
InitAffinity ==
    \E n \in WideCounts : \E i, j \in 0 .. n - 1 : SpawnedOnly(n, { i, j })

\* The first statement of each thread: the computation of its mask and the
\* KeSetSystemAffinityThreadEx call (line 67).
NextAffinity == \E i \in DOMAIN wpc : ThreadEntry_SetAffinity(i)

SpecAffinity == InitAffinity /\ [][NextAffinity]_vars

DriverEntry ==
    \/ DriverEntry_WdfDriverCreate
    \/ DriverEntry_QueryCount
    \/ DriverEntry_AllocOk
    \/ DriverEntry_AllocFail
    \/ DriverEntry_SpawnInit
    \/ DriverEntry_CreateThreadOk
    \/ DriverEntry_CreateThreadFail
    \/ DriverEntry_SpawnDone
    \/ DriverEntry_WaitSlot
    \/ DriverEntry_SkipSlot
    \/ DriverEntry_Finish

Next ==
    \/ DriverEntry
    \/ \E i \in DOMAIN wpc : ThreadEntry(i)
    \/ MyDriverUnload

Spec == Init /\ [][Next]_vars

\* One processor whose registers range over WideProfiles: the decoding and
\* the temperature derivation of ThreadEntry on many raw values.
SpecDecode == InitDecode /\ [][Next]_vars

\* The kernel scheduler lets every ready thread run: DriverEntry's thread and
\* each system thread keep taking steps while they have one to take.
WorkerStep(i) == i \in DOMAIN wpc /\ ThreadEntry(i)

Fairness ==
    /\ WF_vars(DriverEntry)
    /\ \A i \in 0 .. MaxCores - 1 : WF_vars(WorkerStep(i))

SpecLive == InitLive /\ [][Next]_vars /\ Fairness


\* ------------------------------------------------------------- properties
Kinds(i) == { slotLog[i][k].kind : k \in DOMAIN slotLog[i] }

\* A register read of the thread of slot i raised an exception.
Faulted(i) == "exception" \in Kinds(i)

\* PsCreateSystemThread failed for slot i.
SpawnFailed(i) == "spawn_failure" \in Kinds(i)

\* A thread was created for slot i.
Spawned(i) == wpc[i] # "none"

ReturnedSuccess == dpc = "returned" /\ status = "STATUS_SUCCESS"

Signaled(i) == core[i].ThreadDoneEvent.signaled

\* C1 (barrier completeness): whenever DriverEntry has returned
\* STATUS_SUCCESS, the ThreadDoneEvent of every slot 0..CoreCount-1 is
\* signaled, whichever threads faulted and whichever spawns failed.
C1_BarrierComplete ==
    ReturnedSuccess => \A i \in Slots : Signaled(i)

\* A successful return with one faulted thread and one failed spawn.
C1_Witness ==
    /\ ReturnedSuccess
    /\ \E i \in Slots : Faulted(i) /\ Signaled(i)
    /\ \E j \in Slots : SpawnFailed(j) /\ Signaled(j)

\* DriverEntry is blocked in KeWaitForSingleObject on slot di.
BlockedOn(i) ==
    /\ dpc = "wait"
    /\ di = i
    /\ di < CoreCount
    /\ core[i].ThreadHandle # NULL
    /\ ~ Signaled(i)

\* The thread of slot i still has its KeSetEvent ahead of it.
WillSignal(i) ==
    wpc[i] \in { "affinity", "read_tjmax", "read_therm", "read_808", "revert",
                 "derive", "report", "signal", "x_temperature", "x_revert", "x_signal" }

\* C2 (barrier liveness): with every thread scheduled fairly, DriverEntry
\* eventually returns, and whenever it is blocked on the event of a slot the
\* thread of that slot has yet to set it.
C2_BarrierLive ==
    /\ [] (\A i \in DOMAIN wpc : BlockedOn(i) => WillSignal(i))
    /\ <> (dpc = "returned")

\* DriverEntry has returned after really waiting for a faulted thread.
C2_Witness ==
    /\ ReturnedSuccess
    /\ waits # << >>
    /\ Faulted(waits[1])
    /\ \E j \in Slots : SpawnFailed(j)

\* C3 (set exactly once): each ThreadDoneEvent is signaled by at most one
\* KeSetEvent, and is signaled exactly when that one call has been made: by
\* the thread at line 120, by the thread in its __except block, or by
\* DriverEntry for a failed spawn, according to what happened to the slot;
\* when the pass has returned success each slot has had exactly one.
C3_SetOnce ==
    \A i \in DOMAIN sets :
        /\ Len(sets[i]) <= 1
        /\ Signaled(i) <=> Len(sets[i]) = 1
        /\ ReturnedSuccess => Len(sets[i]) = 1
        /\ Len(sets[i]) = 1 =>
             /\ sets[i][1] = "coordinator" <=> SpawnFailed(i)
             /\ sets[i][1] = "worker_fault" <=> Faulted(i)
             /\ sets[i][1] = "worker" <=> (Spawned(i) /\ ~ Faulted(i))

\* A finished pass in which one event was set on the normal path and one in
\* the __except block.
C3_Witness ==
    /\ ReturnedSuccess
    /\ \E i, j \in Slots : sets[i] = << "worker" >> /\ sets[j] = << "worker_fault" >>

\* The thread of slot i ran to its end without an exception.
CompletedNormally(i) == wpc[i] = "exited" /\ ~ Faulted(i)

\* C4 (fault containment): once a thread whose register read faulted has
\* ended, its slot holds Temperature -1 and its event is signaled; every
\* other thread that completed holds the temperature its own processor's
\* registers give; and a pass that got past the allocation returns success.
C4_FaultContained ==
    \A i \in DOMAIN wpc :
        (Faulted(i) /\ wpc[i] = "exited") =>
            /\ core[i].Temperature = InvalidTemperature
            /\ Signaled(i)
            /\ \A j \in DOMAIN wpc \ { i } :
                   CompletedNormally(j) =>
                       core[j].Temperature = DeriveTemperature(msr[j][MSR_TEMPERATURE_TARGET], msr[j][IA32_THERM_STATUS])
            /\ dpc = "returned" => status = "STATUS_SUCCESS"

\* One thread faulted; another, on a processor with target 100 and DTS 40,
\* reported 60; DriverEntry returned success.
C4_Witness ==
    /\ ReturnedSuccess
    /\ \E i, j \in Slots :
          /\ Faulted(i) /\ wpc[i] = "exited"
          /\ CompletedNormally(j) /\ core[j].Temperature = 60

\* The thread of slot i has executed lines 85-90 on values it read.
Derived(i) == wpc[i] \in { "report", "signal", "terminate" } \/ CompletedNormally(i)

\* C5 (temperature derivation): after three successful reads the stored
\* Temperature is T - D as a signed integer, T being bits 16-23 of the
\* temperature-target value and D bits 16-23 of the thermal-status value,
\* when the ReadingValid field the thread tests is 1, and -1 when it is 0.
C5_Derivation ==
    \A i \in DOMAIN wpc :
        Derived(i) =>
            core[i].Temperature =
                IF ReadField(ThermStatusFields, core[i].ThermStatus, "ReadingValid") = 1
                THEN BitsOf(core[i].TjMax, 16, 23) - BitsOf(core[i].ThermStatus, 16, 23)
                ELSE InvalidTemperature

\* A valid reading whose DTS exceeds the target was stored as a negative number.
C5_Witness ==
    \E i \in DOMAIN wpc :
        /\ Derived(i)
        /\ ReadField(ThermStatusFields, core[i].ThermStatus, "ReadingValid") = 1
        /\ BitsOf(core[i].ThermStatus, 16, 23) > BitsOf(core[i].TjMax, 16, 23)
        /\ core[i].Temperature < InvalidTemperature

\* The thread of slot i has stored the thermal-status (and target) value.
HasRead(i) == wpc[i] \in { "read_808", "revert", "derive", "report", "signal", "terminate" }
                 \/ CompletedNormally(i)

\* C6 (ReadingValid is bit 31): for every thermal-status value a thread has
\* read, the field ThermStatus.Fields.ReadingValid equals bit 31 of the raw
\* value.
C6_ReadingValidIsBit31 ==
    \A i \in DOMAIN wpc :
        HasRead(i) =>
            ReadField(ThermStatusFields, core[i].ThermStatus, "ReadingValid")
                = BitsOf(core[i].ThermStatus, 31, 31)

FlagNames ==
    << "StatusBit", "StatusLog", "PROCHOT", "PROCHOTLog", "CriticalTemp",
       "CriticalTempLog", "Threshold1", "Threshold1Log", "Threshold2", "Threshold2Log",
       "PowerLimit", "PowerLimitLog" >>

\* C7 (field positions): for every pair of values a thread has read, Target
\* is bits 16-23 of the temperature-target value, DTS is bits 16-23 of the
\* thermal-status value and the twelve flags are its bits 0..11 in order,
\* whatever the other bits of the values are.
C7_FieldPositions ==
    \A i \in DOMAIN wpc :
        HasRead(i) =>
            /\ ReadField(TjMaxFields, core[i].TjMax, "Target")
                   = BitsOf(core[i].TjMax, 16, 23)
            /\ ReadField(ThermStatusFields, core[i].ThermStatus, "DTS")
                   = BitsOf(core[i].ThermStatus, 16, 23)
            /\ \A k \in DOMAIN FlagNames :
                   ReadField(ThermStatusFields, core[i].ThermStatus, FlagNames[k])
                       = BitsOf(core[i].ThermStatus, k - 1, k - 1)

\* Values were read in which every bit outside the fields is set while the
\* target is 100, DTS is 40 and exactly one flag (PowerLimitLog) is set.
C7_Witness ==
    \E i \in DOMAIN wpc :
        /\ HasRead(i)
        /\ core[i].TjMax = Encode(100, 16) \cup ((0 .. 63) \ (16 .. 23))
        /\ core[i].ThermStatus = Encode(40, 16) \cup { 11 } \cup ThermOtherBits

\* C8 (fatal errors abort before spawning): a pass that found no processor
\* has returned STATUS_UNSUCCESSFUL, one whose allocation failed has returned
\* STATUS_INSUFFICIENT_RESOURCES, and in both cases there is no array, no
\* thread, and no event that was initialized, set or waited on.
C8_FatalAbort ==
    /\ (dpc = "returned" /\ status # "WDF_ERROR" /\ hwCount = 0)
           => status = "STATUS_UNSUCCESSFUL"
    /\ (dpc = "returned" /\ status # "WDF_ERROR" /\ hwCount # 0 /\ pool = "none")
           => status = "STATUS_INSUFFICIENT_RESOURCES"
    /\ status \in { "STATUS_UNSUCCESSFUL", "STATUS_INSUFFICIENT_RESOURCES" } =>
           /\ pool = "none"
           /\ CoreArray = "NULL"
           /\ core = << >>
           /\ wpc = << >>
           /\ sets = << >>
           /\ waits = << >>
           /\ upc = "idle"

\* The pass has returned with the allocation failed on a host with processors.
C8_Witness ==
    /\ dpc = "returned"
    /\ status = "STATUS_INSUFFICIENT_RESOURCES"
    /\ hwCount = MaxCores

\* The pass has returned on a host that reported no processor.
C8_WitnessZero ==
    /\ dpc = "returned"
    /\ status = "STATUS_UNSUCCESSFUL"
    /\ hwCount = 0

\* The spawn loop has dealt with slot i.
Attempted(i) == core[i].ThreadDoneEvent.init /\ (Spawned(i) \/ SpawnFailed(i))

\* C9 (spawn-failure compensation): a slot whose PsCreateSystemThread failed
\* has its event set by DriverEntry alone, keeps Temperature 0 and has no
\* thread; the loop goes on, so that once it is over every slot has been
\* attempted; and a pass with a failed spawn goes on to return success.
C9_SpawnCompensation ==
    /\ [] (\A i \in DOMAIN wpc :
              SpawnFailed(i) =>
                  /\ sets[i] = << "coordinator" >>
                  /\ Signaled(i)
                  /\ core[i].Temperature = 0
                  /\ core[i].ThreadHandle = NULL
                  /\ ~ Spawned(i))
    /\ [] (dpc \in { "wait", "returned" } => \A j \in DOMAIN wpc : Attempted(j))
    /\ ((\E i \in DOMAIN wpc : SpawnFailed(i)) ~> ReturnedSuccess)

\* The spawn of slot 0 failed, a thread was created for a later slot and ran,
\* and the pass returned.
C9_Witness ==
    /\ ReturnedSuccess
    /\ CoreCount >= 2
    /\ SpawnFailed(0)
    /\ core[0].Temperature = 0
    /\ \E j \in Slots : j > 0 /\ wpc[j] = "exited"

\* C10 (returned status): after WdfDriverCreate succeeded, DriverEntry
\* returns STATUS_SUCCESS exactly when the processor count is non-zero and
\* the array was allocated, whatever happened to the threads.
C10_StatusOnlyAttempt ==
    (dpc = "returned" /\ status # "WDF_ERROR") =>
        (status = "STATUS_SUCCESS" <=> (CoreCount # 0 /\ pool # "none"))

\* Success was returned although no slot holds a temperature reading: every
\* slot faulted, failed to spawn or read a value that is not valid.
C10_Witness ==
    /\ ReturnedSuccess
    /\ CoreCount >= 2
    /\ \A i \in Slots : core[i].Temperature \in { InvalidTemperature, 0 }
    /\ \E i \in Slots : Faulted(i)
    /\ \E i \in Slots : CompletedNormally(i)

\* C11 (slots and indices): for a host with N >= 1 processors the array has
\* exactly the slots 0..N-1; from the moment slot i is set up, and so for
\* every slot once the spawn loop is over, slot i holds CpuIndex i; and
\* PsCreateSystemThread creates at most one thread per slot: exactly one
\* for a slot that has a thread, none for a slot whose spawn failed.
C11_SlotsAndIndices ==
    pool # "none" =>
        /\ CoreCount = hwCount
        /\ hwCount >= 1
        /\ DOMAIN core = 0 .. hwCount - 1
        /\ DOMAIN wpc = DOMAIN core
        /\ \A i \in DOMAIN core :
              /\ core[i].ThreadDoneEvent.init => core[i].CpuIndex = i
              /\ dpc \in { "wait", "returned" } => core[i].ThreadDoneEvent.init
              /\ spawns[i] <= 1
              /\ Spawned(i) <=> spawns[i] = 1
              /\ SpawnFailed(i) => spawns[i] = 0

\* The spawn loop is over on the largest host, with threads for all slots
\* but one, each slot holding its own index.
C11_Witness ==
    /\ dpc = "wait"
    /\ CoreCount = MaxCores
    /\ \A i \in Slots : core[i].CpuIndex = i
    /\ \E j \in Slots :
          /\ spawns[j] = 0
          /\ \A i \in Slots \ { j } : spawns[i] = 1

\* The system affinity that confines a thread to processor p.
NarrowedTo(p) == [system |-> TRUE, mask |-> { p }]

Terminating(i) == wpc[i] \in { "terminate", "x_terminate", "exited" }

\* C13 (signal before termination): on both exit paths a thread that has
\* reached PsTerminateSystemThread, or has terminated, has already made its
\* KeSetEvent call: no thread has ended with its ThreadDoneEvent unset.
C13_SignalBeforeTerminate ==
    \A i \in DOMAIN wpc :
        Terminating(i) =>
            /\ Signaled(i)
            /\ sets[i] = IF Faulted(i) THEN << "worker_fault" >> ELSE << "worker" >>

\* A faulted thread and a thread that completed have both terminated while
\* DriverEntry has not yet waited for any slot.
C13_Witness ==
    /\ waits = << >>
    /\ \E i \in DOMAIN wpc : wpc[i] = "exited" /\ Faulted(i) /\ Signaled(i)
    /\ \E j \in DOMAIN wpc : wpc[j] = "exited" /\ ~ Faulted(j) /\ Signaled(j)

\* The thread of slot i has logged its report (lines 92-118).
Reported(i) == ~ Faulted(i) /\ wpc[i] \in { "signal", "terminate", "exited" }

\* C14 (report form): a thread whose three reads succeeded logs the
\* "Temperature reading invalid" entry exactly when the ReadingValid field
\* of the value it read is 0, and when that field is 1 it logs the Temp
\* entry with Temp = T - D, also when T - D is negative.
C14_ReportForm ==
    \A i \in DOMAIN wpc :
        Reported(i) =>
            LET valid == ReadField(ThermStatusFields, core[i].ThermStatus, "ReadingValid") = 1
                entry == slotLog[i][Len(slotLog[i])]
            IN  /\ entry.kind = "invalid" <=> ~ valid
                /\ valid =>
                      /\ entry.kind = "temp"
                      /\ entry.Temp = ReadField(TjMaxFields, core[i].TjMax, "Target")
                                        - ReadField(ThermStatusFields, core[i].ThermStatus, "DTS")

\* C15 as stated (draining follows the whole barrier): once a handle has
\* been closed or the array released, the event of every slot is signaled.
C15_DrainAfterBarrier ==
    (closes # << >> \/ pool = "freed") => \A i \in Slots : Signaled(i)

\* C15, amended (draining is per slot): the handle of a slot is closed only
\* after the wait on that slot's own event has returned, so the closes
\* follow the waits one for one and every closed slot is signaled; and the
\* array is freed only when every slot is signaled and holds no handle.
C15_DrainPerSlot ==
    /\ closes = waits
    /\ \A k \in DOMAIN closes : Signaled(closes[k])
    /\ pool = "freed" =>
          \A i \in Slots : Signaled(i) /\ core[i].ThreadHandle = NULL

\* The handle of slot 0 has been closed while the thread of a later slot
\* has not yet set its event.
C15_Witness ==
    /\ closes = << 0 >>
    /\ core[0].ThreadHandle = NULL
    /\ \E j \in Slots : j > 0 /\ Spawned(j) /\ ~ Signaled(j)

\* C16 as stated (release within the pass): when DriverEntry has returned
\* success no slot holds a thread handle and the array has been released.
C16_ReleasedOnReturn ==
    ReturnedSuccess =>
        /\ \A i \in Slots : core[i].ThreadHandle = NULL
        /\ pool = "freed"

\* C16, amended (release at unload): when DriverEntry has returned success
\* no slot holds a thread handle, every handle a thread was created with
\* having been closed, and the array stays allocated, CoreArray pointing to
\* it, until MyDriverUnload has freed it and cleared CoreArray.
C16_ReleasedAtUnload ==
    ReturnedSuccess =>
        /\ \A i \in Slots : core[i].ThreadHandle = NULL
        /\ { closes[k] : k \in DOMAIN closes } = { i \in Slots : Spawned(i) }
        /\ IF upc = "done"
           THEN pool = "freed" /\ CoreArray = "NULL"
           ELSE pool = "allocated" /\ CoreArray = "pool"

\* DriverEntry has returned success with handles closed for several threads,
\* the array is still allocated and MyDriverUnload has not been called.
C16_Witness ==
    /\ ReturnedSuccess
    /\ upc = "idle"
    /\ pool = "allocated"
    /\ Len(closes) >= 2
    /\ \A i \in Slots : core[i].ThreadHandle = NULL

\* The slots waited on so far.
Waited == { waits[k] : k \in DOMAIN waits }

DataOf(c) == << c.Temperature, c.TjMax, c.ThermStatus, c.Msr808 >>

\* This step is a step of the thread of slot i.
StepOfThread(i) == wpc[i] \notin { "none", "exited" } /\ wpc'[i] # wpc[i]

\* This step is a step of DriverEntry or of MyDriverUnload.
StepOfCoordinator == << dpc, di, upc, ui >>' # << dpc, di, upc, ui >>

\* What a step of the thread of slot i leaves alone: every other slot with
\* its histories, and the CpuIndex and ThreadHandle of its own slot.
ThreadKeepsToSlot(i) ==
    /\ ~ StepOfCoordinator
    /\ \A k \in DOMAIN core \ { i } :
          /\ core'[k] = core[k]
          /\ wpc'[k] = wpc[k]
          /\ affinity'[k] = affinity[k]
          /\ sets'[k] = sets[k]
          /\ slotLog'[k] = slotLog[k]
          /\ reads'[k] = reads[k]
    /\ core'[i].CpuIndex = core[i].CpuIndex
    /\ core'[i].ThreadHandle = core[i].ThreadHandle

\* C18 (slot isolation): in every step of every interleaving, a thread
\* writes only into its own slot; the temperature and raw register fields
\* of an allocated slot change only in a step of that slot's own thread, so
\* DriverEntry and MyDriverUnload never write them after the zeroing; the
\* ThreadDoneEvent of a slot is written by DriverEntry only while the slot
\* has no thread; and ThreadHandle and CpuIndex are written by DriverEntry
\* alone.  No field is written by two threads.
C18_SlotIsolation ==
    [][ \A j \in DOMAIN core :
            /\ StepOfThread(j) => ThreadKeepsToSlot(j)
            /\ DataOf(core'[j]) # DataOf(core[j]) => StepOfThread(j)
            /\ ( StepOfCoordinator /\ core'[j].ThreadDoneEvent # core[j].ThreadDoneEvent )
                  => ~ Spawned(j)
            /\ << core'[j].ThreadHandle, core'[j].CpuIndex >>
                    # << core[j].ThreadHandle, core[j].CpuIndex >>
                  => ( StepOfCoordinator /\ \A k \in DOMAIN wpc : ~ StepOfThread(k) )
      ]_vars

\* Two threads run at once while DriverEntry waits: one has stored its
\* temperature, the other is between its reads.
C18_Witness ==
    /\ dpc = "wait"
    /\ \E i, j \in DOMAIN wpc :
          /\ i # j
          /\ wpc[i] = "report"
          /\ core[i].Temperature = 60
          /\ wpc[j] = "read_therm"
          /\ core[j].TjMax # {}
          /\ core[j].Temperature = 0

\* The registers in the order of the __try block, and the CORE field each
\* read is assigned to.
ReadOrder == << MSR_TEMPERATURE_TARGET, IA32_THERM_STATUS, MSR_CUSTOM_808 >>
RawField(c, k) == << c.TjMax, c.ThermStatus, c.Msr808 >>[k]

\* C19 (reads once, in order, none after a fault): the __readmsr calls of a
\* thread are a prefix of 0x1A2, 0x19C, 0x808, each made at most once; only
\* the last one made can have faulted, and it has exactly when the thread
\* logged an exception; a read that returned has its value in its raw field,
\* and the raw field of a read that faulted or was not made is still zero.
C19_ReadsOnceInOrder ==
    \A i \in DOMAIN wpc :
        /\ Len(reads[i]) <= Len(ReadOrder)
        /\ \A k \in DOMAIN reads[i] :
              /\ reads[i][k].address = ReadOrder[k]
              /\ k < Len(reads[i]) => reads[i][k].ok
        /\ Faulted(i) <=> (reads[i] # << >> /\ ~ reads[i][Len(reads[i])].ok)
        /\ \A k \in DOMAIN ReadOrder :
              RawField(core[i], k) =
                  IF k <= Len(reads[i]) /\ reads[i][k].ok
                  THEN msr[reads[i][k].cpu][ReadOrder[k]]
                  ELSE {}

\* A thread faulted in its second read and has terminated: the first value
\* is stored, the other two raw fields are zero.
C19_Witness ==
    \E i \in DOMAIN wpc :
        /\ wpc[i] = "exited"
        /\ Len(reads[i]) = 2
        /\ reads[i][1].ok
        /\ ~ reads[i][2].ok
        /\ core[i].TjMax # {}
        /\ core[i].ThermStatus = {}
        /\ core[i].Msr808 = {}

\* DriverEntry has logged its final entry (line 223).
PassCompleted ==
    \E k \in DOMAIN passLog : passLog[k] = "All core temperature readings completed"

\* C20 (one entry per processor): once the array is allocated there is a log
\* for each index 0..N-1 and it never holds more than one entry: a Temp
\* report or an invalid-reading report naming the index, an exception entry
\* or a spawn-failure entry; the final entry of the pass is logged once, and
\* when it has been logged every index has exactly one entry.
C20_OneEntryPerProcessor ==
    pool # "none" =>
        /\ DOMAIN slotLog = 0 .. hwCount - 1
        /\ \A i \in DOMAIN slotLog :
              /\ Len(slotLog[i]) <= 1
              /\ \A k \in DOMAIN slotLog[i] :
                    /\ slotLog[i][k].kind \in { "temp", "invalid", "exception", "spawn_failure" }
                    /\ slotLog[i][k].kind \in { "temp", "invalid" } => slotLog[i][k].CpuIndex = i
              /\ PassCompleted => Len(slotLog[i]) = 1
        /\ Cardinality({ k \in DOMAIN passLog :
                            passLog[k] = "All core temperature readings completed" }) <= 1
        /\ PassCompleted <=> dpc = "returned"

\* The final entry has been logged after an exception entry for one
\* processor and an invalid-reading report for another.
C20_Witness ==
    /\ PassCompleted
    /\ \E i \in Slots : slotLog[i] = << [kind |-> "exception"] >>
    /\ \E j \in Slots : Len(slotLog[j]) = 1 /\ slotLog[j][1].kind = "invalid"

\* The thread of slot i has made its KeSetSystemAffinityThreadEx call and
\* not yet reverted.
Pinned(i) == wpc[i] \in DOMAIN ReadAt

\* C21 (mask of one bit per processor): on every host, also one with more
\* processors than a KAFFINITY has bits, the thread of each slot i is, after
\* line 67, under a system affinity whose mask is the one processor i, and
\* the masks of two threads of one pass never share a processor.
C21_MaskNamesProcessor ==
    \A i \in DOMAIN wpc :
        Pinned(i) =>
            /\ affinity[i].system
            /\ Cardinality(affinity[i].mask) = 1
            /\ affinity[i].mask = { core[i].CpuIndex }
            /\ \A j \in DOMAIN wpc \ { i } :
                  Pinned(j) => affinity[i].mask \cap affinity[j].mask = {}

\* The thread of slot i has made its last access to the slot: its KeSetEvent.
PastLastAccess(i) == Terminating(i) /\ Signaled(i)

\* C22 (unload after the pass): the array is never freed twice; it is freed
\* only by MyDriverUnload, and then every thread that was created has set
\* its event, after which it no longer touches its slot; MyDriverUnload
\* finds every handle NULL, so it reaches neither its KeWaitForSingleObject
\* nor its ZwClose, and no handle is ever closed twice.
C22_UnloadAfterPass ==
    /\ pool # "corrupt"
    /\ pool = "freed" =>
          /\ upc = "done"
          /\ CoreArray = "NULL"
          /\ \A i \in Slots : Spawned(i) => PastLastAccess(i)
    /\ upc # "idle" =>
          /\ ReturnedSuccess
          /\ \A i \in Slots : core[i].ThreadHandle = NULL
          /\ \A i \in Slots : Spawned(i) => PastLastAccess(i)
    /\ \A k, l \in DOMAIN closes : closes[k] = closes[l] => k = l

\* MyDriverUnload has freed the array of the largest host, every handle having
\* been closed once by DriverEntry, while a thread that has set its event
\* has still to terminate.
C22_Witness ==
    /\ upc = "done"
    /\ pool = "freed"
    /\ CoreCount = MaxCores
    /\ Len(closes) = MaxCores
    /\ \E i \in Slots : wpc[i] = "terminate"

====
